---- MODULE Spec2Model ----
(***************************************************************************)
(* MapRoute agent: message -> parse -> validate -> geocode -> route.       *)
(* Strings are sequences of one-character strings, so that the parser's    *)
(* and the validator's character-level rules are computed, not assumed.    *)
(***************************************************************************)
EXTENDS Integers, Sequences, FiniteSets, TLC

(***************************************************************************)
(* Characters and Python's str methods                                     *)
(***************************************************************************)
LowerChars == <<"a","b","c","d","e","f","g","h","i","j","k","l","m",
                "n","o","p","q","r","s","t","u","v","w","x","y","z">>
UpperChars == <<"A","B","C","D","E","F","G","H","I","J","K","L","M",
                "N","O","P","Q","R","S","T","U","V","W","X","Y","Z">>
LowerSet == {LowerChars[i] : i \in 1..26}
UpperSet == {UpperChars[i] : i \in 1..26}
DigitSet == {"0","1","2","3","4","5","6","7","8","9"}
\* characters matched by \s and stripped by str.strip() / str.split()
Whitespace == {" ", "\t"}

IsLower(c) == c \in LowerSet
IsUpper(c) == c \in UpperSet
IsLetter(c) == IsLower(c) \/ IsUpper(c)
IsWs(c) == c \in Whitespace

ToLower(c) == IF IsUpper(c) THEN LowerChars[CHOOSE i \in 1..26 : UpperChars[i] = c] ELSE c
ToUpper(c) == IF IsLower(c) THEN UpperChars[CHOOSE i \in 1..26 : LowerChars[i] = c] ELSE c

\* str.lower()
Lower(s) == [i \in 1..Len(s) |-> ToLower(s[i])]

\* str.title(): a letter is upper-cased unless the character before it is a letter
Title(s) ==
    [i \in 1..Len(s) |->
        IF IsLetter(s[i])
        THEN IF i > 1 /\ IsLetter(s[i-1]) THEN ToLower(s[i]) ELSE ToUpper(s[i])
        ELSE s[i]]

RECURSIVE LStrip(_)
LStrip(s) == IF s # <<>> /\ IsWs(Head(s)) THEN LStrip(Tail(s)) ELSE s

RECURSIVE RStrip(_)
RStrip(s) == IF s # <<>> /\ IsWs(s[Len(s)]) THEN RStrip(SubSeq(s, 1, Len(s) - 1)) ELSE s

\* str.strip()
Strip(s) == RStrip(LStrip(s))

\* re.sub(r"\s+", " ", s): every run of whitespace becomes one space
RECURSIVE CollapseWs(_)
CollapseWs(s) ==
    IF s = <<>> THEN <<>>
    ELSE IF IsWs(Head(s)) THEN <<" ">> \o CollapseWs(LStrip(s))
    ELSE <<Head(s)>> \o CollapseWs(Tail(s))

\* ' '.join(s.split()): runs of whitespace become one space, none at the ends
SplitJoin(s) == CollapseWs(Strip(s))

\* w occurs in s starting at position i
HasAt(s, i, w) == i >= 1 /\ i + Len(w) - 1 <= Len(s) /\ SubSeq(s, i, i + Len(w) - 1) = w

\* Python's `w in s`
Contains(s, w) == \E i \in 1..(Len(s) + 1) : HasAt(s, i, w)

\* first position >= i of s that holds no whitespace (Len(s) + 1 if none)
RECURSIVE WsEnd(_, _)
WsEnd(s, i) == IF i <= Len(s) /\ IsWs(s[i]) THEN WsEnd(s, i + 1) ELSE i

RemoveChars(s, bad) == SelectSeq(s, LAMBDA c : c \notin bad)

(***************************************************************************)
(* utils/validators.py                                                     *)
(***************************************************************************)
MIN_LENGTH == 2
MAX_LENGTH == 100

\* ALLOWED_PATTERN: [a-zA-Z0-9\s\-,\.]
AllowedChar(c) == IsLetter(c) \/ c \in DigitSet \/ IsWs(c) \/ c \in {"-", ",", "."}

ErrEmpty == "Location cannot be empty"
ErrShort == "Location must be at least 2 characters"
ErrLong == "Location must not exceed 100 characters"
ErrChars == "Location contains invalid characters"
NoError == "None"

\* the lengths taken of the string as given, line 29 left out
validate_location_NoStrip(location) ==
    IF location = <<>> \/ Strip(location) = <<>> THEN [valid |-> FALSE, error |-> ErrEmpty]
    ELSE IF Len(location) < MIN_LENGTH THEN [valid |-> FALSE, error |-> ErrShort]
    ELSE IF Len(location) > MAX_LENGTH THEN [valid |-> FALSE, error |-> ErrLong]
    ELSE IF \E i \in 1..Len(location) : ~AllowedChar(location[i])
         THEN [valid |-> FALSE, error |-> ErrChars]
    ELSE [valid |-> TRUE, error |-> NoError]

validate_location(location) ==
    LET loc == Strip(location) IN
    IF location = <<>> \/ loc = <<>> THEN [valid |-> FALSE, error |-> ErrEmpty]
    ELSE IF Len(loc) < MIN_LENGTH THEN [valid |-> FALSE, error |-> ErrShort]
    ELSE IF Len(loc) > MAX_LENGTH THEN [valid |-> FALSE, error |-> ErrLong]
    ELSE IF \E i \in 1..Len(loc) : ~AllowedChar(loc[i])
         THEN [valid |-> FALSE, error |-> ErrChars]
    ELSE [valid |-> TRUE, error |-> NoError]

DangerousChars == {"<", ">", "'", "\"", ";"}

sanitize_location(location) == Strip(RemoveChars(SplitJoin(location), DangerousChars))

(***************************************************************************)
(* utils/parsers.py                                                        *)
(***************************************************************************)
W_direction == <<"d","i","r","e","c","t","i","o","n">>
W_directions == W_direction \o <<"s">>
W_route == <<"r","o","u","t","e">>
W_navigate == <<"n","a","v","i","g","a","t","e">>
W_from == <<"f","r","o","m">>
W_to == <<"t","o">>
W_how == <<"h","o","w">>
W_get == <<"g","e","t">>
W_how_to_get == W_how \o <<" ">> \o W_to \o <<" ">> \o W_get

\* keywords of is_route_request
Keywords == {W_direction, W_route, W_navigate, W_from, W_to, W_how_to_get}

is_route_request(message) ==
    /\ message # <<>>
    /\ \E k \in Keywords : Contains(Lower(message), k)

\* re.sub(r"([a-z])([A-Z])", r"\1 \2", s)
RECURSIVE SplitCamel(_)
SplitCamel(s) ==
    IF Len(s) < 2 THEN s
    ELSE IF IsLower(s[1]) /\ IsUpper(s[2])
         THEN <<s[1], " ", s[2]>> \o SplitCamel(SubSeq(s, 3, Len(s)))
    ELSE <<Head(s)>> \o SplitCamel(Tail(s))

\* re.sub(r"from([A-Z])", r"from \1", s, flags=re.IGNORECASE): under IGNORECASE
\* both "from" and the class [A-Z] match letters of either case
RECURSIVE SpaceAfterFrom(_)
SpaceAfterFrom(s) ==
    IF s = <<>> THEN <<>>
    ELSE IF Len(s) >= 5 /\ Lower(SubSeq(s, 1, 4)) = W_from /\ IsLetter(s[5])
         THEN W_from \o <<" ", s[5]>> \o SpaceAfterFrom(SubSeq(s, 6, Len(s)))
    ELSE <<Head(s)>> \o SpaceAfterFrom(Tail(s))

\* lines 30-33 of parse_route_request
Normalize(message) == Strip(Lower(SpaceAfterFrom(SplitCamel(CollapseWs(Strip(message))))))

\* DIRECTION_PATTERNS, in order: the literal words before the first group, which
\* the pattern separates by \s+ ; "directions?" is two alternatives
DIRECTION_PATTERNS ==
    << {<<W_directions, W_from>>, <<W_direction, W_from>>},
       {<<W_route, W_from>>},
       {<<W_how, W_to, W_get, W_from>>},
       {<<W_navigate, W_from>>},
       {<<W_from>>} >>

\* the words, each followed by \s+ up to the next word, match s from position i:
\* the position right after the last word, or 0. (A \s+ that a literal follows
\* takes the whole run of whitespace.)
RECURSIVE WordsEnd(_, _, _)
WordsEnd(s, i, words) ==
    IF ~HasAt(s, i, Head(words)) THEN 0
    ELSE LET e == i + Len(Head(words)) IN
         IF Len(words) = 1 THEN e
         ELSE IF e <= Len(s) /\ IsWs(s[e]) THEN WordsEnd(s, WsEnd(s, e), Tail(words))
         ELSE 0

\* (.+?)\s+to\s+(.+) with group 1 starting at a: the ends b of group 1 (exclusive)
\* for which the rest matches
Group1Ends(s, a) ==
    {b \in (a + 1)..Len(s) :
        /\ IsWs(s[b])
        /\ LET t == WsEnd(s, b) IN
            /\ HasAt(s, t, W_to)
            /\ t + 3 <= Len(s)
            /\ IsWs(s[t + 2])}

\* \s+(.+?)\s+to\s+(.+) from position e: greedy \s+ first gives up whitespace only
\* when no match follows; the lazy group takes the smallest end; the last \s+ is
\* greedy but leaves the final group one character
Group1Starts(s, e) ==
    {a \in (e + 1)..Len(s) : WsEnd(s, e) >= a /\ Group1Ends(s, a) # {}}

Max(S) == CHOOSE x \in S : \A y \in S : y <= x
Min(S) == CHOOSE x \in S : \A y \in S : x <= y

\* the match of one alternative at start position i: <<group 1, group 2>> or <<>>
MatchAt(s, i, words) ==
    LET e == WordsEnd(s, i, words)
        starts == IF e = 0 THEN {} ELSE Group1Starts(s, e)
    IN IF starts = {} THEN <<>>
       ELSE LET a == Max(starts)
                b == Min(Group1Ends(s, a))
                t == WsEnd(s, b)
                c == Min({WsEnd(s, t + 2), Len(s)})
            IN <<SubSeq(s, a, b - 1), SubSeq(s, c, Len(s))>>

\* re.search(pattern, s): the match at the leftmost start position that has one
Search(s, alts) ==
    LET found == {h \in {<<i, MatchAt(s, i, w)>> : i \in 1..Len(s), w \in alts} :
                    h[2] # <<>>}
    IN IF found = {} THEN <<>>
       ELSE (CHOOSE h \in found : \A g \in found : h[1] <= g[1])[2]

RECURSIVE FirstPattern(_, _)
FirstPattern(s, k) ==
    IF k > Len(DIRECTION_PATTERNS) THEN <<>>
    ELSE LET m == Search(s, DIRECTION_PATTERNS[k]) IN
         IF m # <<>> THEN m ELSE FirstPattern(s, k + 1)

\* <<origin, destination>>, or <<>> for Python's None
parse_route_request(message) ==
    IF message = <<>> THEN <<>>
    ELSE LET m == FirstPattern(Normalize(message), 1) IN
         IF m = <<>> THEN <<>>
         ELSE <<Title(Strip(m[1])), Title(Strip(m[2]))>>

(***************************************************************************)
(* Bounds of the model                                                     *)
(***************************************************************************)
\* RoutingService(cache_ttl): the ttl this instance is constructed with, in seconds
CacheTtl == 2
\* geocoding lookups left running by a gather that raised, at most
MaxOrphans == 1

(***************************************************************************)
(* app/config.py and the defaults of calculate_route                       *)
(***************************************************************************)
settings_max_retries == 3
settings_retry_delay == 1
DEFAULT_MAX_RETRIES == 3
DEFAULT_BACKOFF_FACTOR == 1

RECURSIVE Pow2(_)
Pow2(n) == IF n = 0 THEN 1 ELSE 2 * Pow2(n - 1)

\* Python's round(): n / d to the nearest integer, ties to even (d > 0)
RoundDiv(n, d) ==
    LET q == n \div d
        r == n % d
    IN IF 2 * r < d THEN q
       ELSE IF 2 * r > d THEN q + 1
       ELSE IF q % 2 = 0 THEN q ELSE q + 1

(***************************************************************************)
(* models/schemas.py                                                       *)
(***************************************************************************)
NoneVal == [none |-> TRUE]

Location(name, latitude, longitude) ==
    [name |-> name, latitude |-> latitude, longitude |-> longitude]

(***************************************************************************)
(* services/routing_service.py                                             *)
(***************************************************************************)
\* the link with longitude ahead of latitude
_generate_map_url_LonLat(origin, destination) ==
    [base |-> "https://www.google.com/maps/dir/?api=1",
     origin |-> <<origin.longitude, origin.latitude>>,
     destination |-> <<destination.longitude, destination.latitude>>]

_generate_map_url(origin, destination) ==
    [base |-> "https://www.google.com/maps/dir/?api=1",
     origin |-> <<origin.latitude, origin.longitude>>,
     destination |-> <<destination.latitude, destination.longitude>>]

\* the summary with "hours" for every number of hours
_create_summary_AlwaysPlural(origin_name, dest_name, metres, seconds) ==
    LET hours == seconds \div 3600
        minutes == (seconds \div 60) % 60
        time_str == IF hours > 0
                    THEN <<hours, "hours", minutes, "min">>
                    ELSE <<minutes, "min">>
    IN [origin_name |-> origin_name, dest_name |-> dest_name,
        distance |-> RoundDiv(metres, 10), time_str |-> time_str]

\* distance in km and duration in minutes come as exact fractions: metres / 1000 and
\* seconds / 60. The text shows the distance with two decimals (in hundredths here).
_create_summary(origin_name, dest_name, metres, seconds) ==
    LET hours == seconds \div 3600
        minutes == (seconds \div 60) % 60
        time_str == IF hours > 0
                    THEN <<hours, IF hours # 1 THEN "hours" ELSE "hour", minutes, "min">>
                    ELSE <<minutes, "min">>
    IN [origin_name |-> origin_name, dest_name |-> dest_name,
        distance |-> RoundDiv(metres, 10), time_str |-> time_str]

\* lines 75-88: distance_km is kept in hundredths of a km, duration_minutes in
\* tenths of a minute
RouteInfo(origin, destination, route) ==
    [origin |-> origin,
     destination |-> destination,
     distance_km |-> RoundDiv(route.distance, 10),
     duration_minutes |-> RoundDiv(route.duration, 6),
     map_url |-> _generate_map_url(origin, destination),
     summary |-> _create_summary(origin.name, destination.name,
                                 route.distance, route.duration)]

\* a key of the names as they come
cache_key_CaseSensitive(origin, destination) == <<origin.name, destination.name>>

\* line 37
cache_key(origin, destination) == <<Lower(origin.name), Lower(destination.name)>>

\* an entry holds the RouteInfo and, for its timestamp, the time elapsed since it
\* was stored: age = time.time() - timestamp, counted up to CacheTtl, from where
\* on the expiry test gives the same answer
CacheEntry(route_info) == [route_info |-> route_info, age |-> 0]

\* a cache that never expires its entries
Fresh_NoExpiry(entry) == entry.age <= CacheTtl

\* line 41: time.time() - timestamp < self.cache_ttl
Fresh(entry) == entry.age < CacheTtl

\* a loop that stops one request early
RetryAllowed_Strict(attempt_no, max_retries) == attempt_no < max_retries

\* line 58: the loop goes on while attempt <= max_retries
RetryAllowed(attempt_no, max_retries) == attempt_no <= max_retries

\* a loop that also retries other HTTP errors
RateLimited_AnyStatus(outcome) == outcome \in {"429", "http_error"}

\* line 63
RateLimited(outcome) == outcome = "429"

\* a product where the code has a power
WaitTime_Product(backoff_factor, attempt_no) == backoff_factor * 2 * attempt_no

\* line 65
WaitTime(backoff_factor, attempt_no) == backoff_factor * Pow2(attempt_no)

\* a store under the names the other way round
CachePut_Reversed(c, key, route_info) ==
    [k \in DOMAIN c \cup {<<key[2], key[1]>>} |->
        IF k = <<key[2], key[1]>> THEN CacheEntry(route_info) ELSE c[k]]

\* a store that leaves an entry that is already there
CachePut_KeepExisting(c, key, route_info) ==
    IF key \in DOMAIN c
    THEN c
    ELSE [k \in DOMAIN c \cup {key} |-> IF k = key THEN CacheEntry(route_info) ELSE c[k]]

\* line 91
CachePut(c, key, route_info) ==
    [k \in DOMAIN c \cup {key} |-> IF k = key THEN CacheEntry(route_info) ELSE c[k]]

\* an expired entry left in place
CacheDel_Keep(c, key) == c

\* line 46
CacheDel(c, key) == [k \in DOMAIN c \ {key} |-> c[k]]

\* a hit that stamps the entry anew
CacheHit_Refresh(c, key) == [c EXCEPT ![key].age = 0]

\* lines 40-43: a hit reads the entry and leaves the cache as it is
CacheHit(c, key) == c

\* d seconds pass
Age(c, d) ==
    [k \in DOMAIN c |-> [c[k] EXCEPT !.age = IF @ + d > CacheTtl THEN CacheTtl ELSE @ + d]]

(***************************************************************************)
(* The inputs the model draws from                                         *)
(***************************************************************************)
\* "help", "route to Abuja", "directions from !! to ??", "from a to Abuja",
\* "from Lagos to ??", "directions from Lagos to Abuja", "Route fromLAGOS  to abuja",
\* "how to get from abuja to lagos", "from a to ??"
M_help == <<"h","e","l","p">>
M_parse_error == <<"r","o","u","t","e"," ","t","o"," ","A","b","u","j","a">>
M_both_invalid == <<"d","i","r","e","c","t","i","o","n","s"," ","f","r","o","m"," ","!","!"," ","t","o"," ","?","?">>
M_origin_invalid == <<"f","r","o","m"," ","a"," ","t","o"," ","A","b","u","j","a">>
M_dest_invalid == <<"f","r","o","m"," ","L","a","g","o","s"," ","t","o"," ","?","?">>
M_valid == <<"d","i","r","e","c","t","i","o","n","s"," ","f","r","o","m"," ","L","a","g","o","s"," ","t","o"," ","A","b","u","j","a">>
M_valid_camel == <<"R","o","u","t","e"," ","f","r","o","m","L","A","G","O","S"," "," ","t","o"," ","a","b","u","j","a">>
M_reverse == <<"h","o","w"," ","t","o"," ","g","e","t"," ","f","r","o","m"," ","a","b","u","j","a"," ","t","o"," ","l","a","g","o","s">>
M_both_mixed == <<"f","r","o","m"," ","a"," ","t","o"," ","?","?">>
M_empty == <<>>
Messages == {M_help, M_empty, M_parse_error, M_both_invalid, M_origin_invalid,
             M_both_mixed, M_dest_invalid, M_valid, M_valid_camel, M_reverse}

N_Lagos == <<"L","a","g","o","s">>
N_LAGOS == <<"L","A","G","O","S">>
N_Abuja == <<"A","b","u","j","a">>

\* <<latitude, longitude>> the geocoding provider may report for a name
GeoCoords == {<<6, 3>>, <<9, 7>>}

\* routes[0] of a well-formed directions response: distance in metres, duration
\* in seconds; the code takes any numbers, so also negative ones
ProviderRoutes == {[distance |-> 1200000, duration |-> 18000],
                   [distance |-> -1500, duration |-> -90]}

\* what a directions request may end in: a 2xx response with routes, HTTP 429,
\* another HTTP error status (raise_for_status), a network error, a body without
\* routes / distance / duration (KeyError, IndexError, ValueError), or a body of
\* another shape (a TypeError, which calculate_route does not catch)
RouteOutcomes == {"ok", "429", "http_error", "network_error", "malformed", "type_error"}

\* arguments of a direct call of calculate_route, as tests/test_routing.py makes
DirectOrigins == {Location(N_LAGOS, 6, 3)}
DirectDestinations == {Location(N_Abuja, 9, 7)}
DirectRetries == {1, DEFAULT_MAX_RETRIES}
DirectBackoffs == {DEFAULT_BACKOFF_FACTOR, 2}

(***************************************************************************)
(* app/webhook.py: the request body, latest_text, extract_last_directions, *)
(* make_task_result and handle_webhook up to its await                     *)
(***************************************************************************)
\* a JSON value as request.json() returns it: a record whose one field is named
\* after its Python type
JStr(s) == [str |-> s]
JInt(n) == [int |-> n]
JList(a) == [list |-> a]
JDict(o) == [dict |-> o]
JNone == [NoneType |-> TRUE]
EmptyDict == [k \in {} |-> JNone]

\* type(j).__name__, isinstance(j, ...)
TypeName(j) == CHOOSE t \in DOMAIN j : TRUE
IsStrJ(j) == "str" \in DOMAIN j
IsInt(j) == "int" \in DOMAIN j
IsList(j) == "list" \in DOMAIN j
IsDict(j) == "dict" \in DOMAIN j

\* bool(j)
Truthy(j) ==
    CASE IsStrJ(j) -> j.str # <<>>
      [] IsInt(j) -> j.int # 0
      [] IsList(j) -> j.list # <<>>
      [] IsDict(j) -> DOMAIN j.dict # {}
      [] OTHER -> FALSE

\* d.get(k, default) of a dict d
DictGet(d, k, default) == IF k \in DOMAIN d.dict THEN d.dict[k] ELSE default

\* the exceptions of the handler; str(e) of each is its record
JSONDecodeError == [type |-> "JSONDecodeError"]
UnboundLocalError(name) == [type |-> "UnboundLocalError", name |-> name]
AttributeError(j, name) == [type |-> "AttributeError", of |-> TypeName(j), attr |-> name]
TypeError(j, what) == [type |-> "TypeError", of |-> TypeName(j), what |-> what]
NoException == [type |-> "none"]

Ok(v) == [ok |-> TRUE, v |-> v]
Fail(e) == [ok |-> FALSE, exc |-> e]

W_text == <<"t","e","x","t">>
W_data == <<"d","a","t","a">>
W_lt == <<"<">>
W_Calculating == <<"C","a","l","c","u","l","a","t","i","n","g">>
W_dots == <<".",".",".">>
W_directions_from == W_directions \o <<" ">> \o W_from
W_2_0 == <<"2",".","0">>

IsStr(j, w) == IsStrJ(j) /\ j.str = w

\* what one turn of a loop of latest_text does
Skip == [r |-> "continue"]
Return(s) == [r |-> "return", v |-> s]
Raise(e) == [r |-> "raise", exc |-> e]

\* lines 46-51: the loop over a data part's items, from item j down
RECURSIVE NestedText(_, _)
NestedText(data, j) ==
    IF j = 0 THEN Skip
    ELSE IF ~IsDict(data[j]) THEN NestedText(data, j - 1)
    ELSE LET nested_text == DictGet(data[j], "text", JStr(<<>>))
         IN IF ~Truthy(nested_text) THEN NestedText(data, j - 1)
            ELSE IF ~IsStrJ(nested_text)
            THEN Raise(AttributeError(nested_text, "startswith"))
            ELSE IF HasAt(nested_text.str, 1, W_lt) \/ Contains(nested_text.str, W_Calculating)
            THEN NestedText(data, j - 1)
            ELSE Return(Strip(nested_text.str))

\* lines 33-51: one part
PartText(p) ==
    IF ~IsDict(p) THEN Skip
    ELSE LET kind == DictGet(p, "kind", JNone)
             text == DictGet(p, "text", JStr(<<>>))
             data == DictGet(p, "data", JNone)
         IN IF ~Truthy(text) THEN Skip
            ELSE IF ~IsStrJ(text) THEN Raise(AttributeError(text, "strip"))
            ELSE IF Strip(text.str) = <<>> THEN Skip
            ELSE IF \/ HasAt(text.str, 1, W_lt)
                    \/ Contains(text.str, W_Calculating)
                    \/ Contains(text.str, W_dots)
            THEN Skip
            ELSE IF IsStr(kind, W_text) THEN Return(Strip(text.str))
            ELSE IF IsStr(kind, W_data) /\ IsList(data)
            THEN NestedText(data.list, Len(data.list))
            ELSE Skip

\* lines 32-53: the loop over the parts, from part i down
RECURSIVE PartsFrom(_, _)
PartsFrom(parts, i) ==
    IF i = 0 THEN Ok(<<>>)
    ELSE LET turn == PartText(parts[i])
         IN IF turn.r = "return" THEN Ok(turn.v)
            ELSE IF turn.r = "raise" THEN Fail(turn.exc)
            ELSE PartsFrom(parts, i - 1)

\* the text of the last part that holds one: Ok(text) or Fail(exception)
latest_text(parts) ==
    IF ~Truthy(parts) THEN Ok(<<>>)
    ELSE IF IsList(parts) THEN PartsFrom(parts.list, Len(parts.list))
    ELSE IF IsInt(parts) THEN Fail(TypeError(parts, "not reversible"))
    ELSE Ok(<<>>)

\* "directions from" and what follows its last occurrence, stripped; a text
\* without it stripped; "" for what is no string
extract_last_directions(text) ==
    IF IsStrJ(text) /\ Contains(text.str, W_directions_from)
    THEN LET i == Max({k \in 1..Len(text.str) : HasAt(text.str, k, W_directions_from)})
         IN W_directions_from
              \o Strip(SubSeq(text.str, i + Len(W_directions_from), Len(text.str)))
    ELSE IF IsStrJ(text) THEN Strip(text.str)
    ELSE <<>>

\* str(uuid.uuid4())
Uuid == [uuid |-> TRUE]

\* the texts the handler writes itself
NoTextInParts == [template |-> "no_valid_text_in_parts"]
NoMessageField == [template |-> "no_message_field"]
InternalServerError(e) == [template |-> "internal_server_error", error |-> e]

\* the task envelope; ids and timestamps left out
make_task_result(rid, content, state, user_echo, attachments, quick_replies) ==
    [jsonrpc |-> "2.0",
     id |-> rid,
     result |->
        [kind |-> "task",
         status |-> [state |-> state,
                     message |-> [role |-> "agent",
                                  parts |-> <<[kind |-> "text", text |-> content]>>,
                                  attachments |-> attachments,
                                  quick_replies |-> quick_replies]],
         artifacts |->
            <<[name |-> "assistantResponse",
               parts |-> <<[kind |-> "text", text |-> content]>>]>>
            \o (IF attachments # <<>>
                THEN <<[name |-> "attachments",
                        parts |-> <<[kind |-> "data", data |-> attachments]>>]>>
                ELSE <<>>)
            \o (IF quick_replies # <<>>
                THEN <<[name |-> "quickReplies",
                        parts |-> <<[kind |-> "data", data |-> quick_replies]>>]>>
                ELSE <<>>),
         history |-> IF IsStrJ(user_echo)
                     THEN <<[role |-> "user",
                             parts |-> <<[kind |-> "text", text |-> user_echo.str]>>]>>
                     ELSE <<>>]]

\* the primary text field of an envelope, and its state
ContentOf(envelope) == envelope.result.status.message.parts[1].text
StateOf(envelope) == envelope.result.status.state

\* JSONResponse(content=resp): the status code defaults to 200
JSONResponse(resp) == [status_code |-> 200, content |-> resp]

\* lines 158-166: the text of an A2A request
A2AText(body) ==
    LET params == DictGet(body, "params", JDict(EmptyDict))
        Parts(message_obj) ==
            IF ~IsDict(message_obj) THEN Fail(AttributeError(message_obj, "get"))
            ELSE latest_text(DictGet(message_obj, "parts", JList(<<>>)))
        Text(found) ==
            IF found.ok THEN Ok(extract_last_directions(JStr(found.v))) ELSE found
    IN IF ~IsDict(params) THEN Fail(AttributeError(params, "get"))
       ELSE Text(Parts(DictGet(params, "message", JDict(EmptyDict))))

\* lines 193-201: the text of a request in the simple format
SimpleText(body) ==
    LET first == DictGet(body, "message", JNone)
        message_obj == IF Truthy(first) THEN first ELSE DictGet(body, "text", JNone)
        Text(found) ==
            IF found.ok THEN Ok(extract_last_directions(JStr(found.v))) ELSE found
    IN IF IsDict(message_obj) /\ "parts" \in DOMAIN message_obj.dict
       THEN Text(latest_text(message_obj.dict["parts"]))
       ELSE Ok(extract_last_directions(message_obj))

\* a request: a body that is no JSON, or the value request.json() returns
NotJson == [json |-> FALSE]
Json(value) == [json |-> TRUE, value |-> value]

\* lines 147-224, up to the first await or return of the try block: the
\* exception raised, the response returned at once, or the call of
\* process_message awaited
TryBlock(request) ==
    LET Branch(body, rid, a2a, found) ==
            IF ~found.ok THEN Raise(found.exc)
            ELSE IF found.v = <<>>
            THEN Return(JSONResponse(make_task_result(
                     rid, IF a2a THEN NoTextInParts ELSE NoMessageField,
                     "failed", JNone, <<>>, <<>>)))
            ELSE [r |-> "await", rid |-> rid, message_text |-> found.v]
        Body(body) ==
            IF ~IsDict(body) THEN Raise(AttributeError(body, "get"))
            ELSE IF IsStr(DictGet(body, "jsonrpc", JNone), W_2_0)
            THEN Branch(body, DictGet(body, "id", Uuid), TRUE, A2AText(body))
            ELSE Branch(body, DictGet(body, "id", Uuid), FALSE, SimpleText(body))
    IN IF ~request.json THEN Raise(JSONDecodeError) ELSE Body(request.value)

\* lines 226-237: the except block for exception e; "body" is bound only
\* if request.json() returned
ExceptBlock(request, e) ==
    IF ~request.json THEN Raise(UnboundLocalError("body"))
    ELSE Return(JSONResponse(make_task_result(
             IF IsDict(request.value) THEN DictGet(request.value, "id", JNone)
             ELSE Uuid,
             InternalServerError(e), "failed", JNone, <<>>, <<>>)))

\* handle_webhook up to its first await, its return or the exception that
\* leaves it; "caught" is the exception the except block handled
HandlerFront(request) ==
    LET Handled(tried) ==
            IF tried.r = "raise"
            THEN [caught |-> tried.exc, out |-> ExceptBlock(request, tried.exc)]
            ELSE [caught |-> NoException, out |-> tried]
    IN Handled(TryBlock(request))

\* parts of a message
TextPart(text) == [kind |-> JStr(W_text), text |-> text]
DataPart(text, items) == [kind |-> JStr(W_data), text |-> text, data |-> JList(items)]
W_html == <<"<","p",">","h","i","<","/","p",">">>
W_status == W_Calculating \o <<" ">> \o W_route \o W_dots

\* {"message": message}, {"text": text}
SimpleRequest(message) == Json(JDict([message |-> message]))
TextRequest(text) == Json(JDict([text |-> text]))
\* {"jsonrpc": "2.0", "id": "7", "params": {"message": {"parts": parts}}}
A2ARequest(parts) ==
    Json(JDict([jsonrpc |-> JStr(W_2_0), id |-> JStr(<<"7">>),
                params |-> JDict([message |-> JDict([parts |-> JList(parts)])])]))

\* the requests of the model: no JSON; [] ; {"message": ...} with each message
\* of the model, with 5 and with parts; {"text": ...}; A2A requests with a text
\* part, with an HTML part after the text part, with a status part only, with
\* a data part, with a part whose text is 5, without params, with params []
Requests ==
    {NotJson, Json(JList(<<>>)), SimpleRequest(JInt(5)), TextRequest(JStr(M_valid)),
     SimpleRequest(JDict([parts |-> JList(<<JDict(TextPart(JStr(M_help)))>>)])),
     A2ARequest(<<JDict(TextPart(JStr(M_valid)))>>),
     A2ARequest(<<JDict(TextPart(JStr(M_dest_invalid))),
                  JDict(TextPart(JStr(W_html)))>>),
     A2ARequest(<<JDict(TextPart(JStr(W_status)))>>),
     A2ARequest(<<JDict(DataPart(JStr(W_data),
                                 <<JDict([text |-> JStr(M_help \o <<" ">>)])>>))>>),
     A2ARequest(<<JDict(TextPart(JInt(5)))>>),
     Json(JDict([jsonrpc |-> JStr(W_2_0)])),
     Json(JDict([jsonrpc |-> JStr(W_2_0), params |-> JList(<<>>)]))}
    \cup {SimpleRequest(JStr(m)) : m \in Messages}

\* HandlerFront, computed once for each request of the model
HandlerOf == [request \in Requests |-> HandlerFront(request)]

\* the texts the handler passes to process_message
WebhookTexts ==
    {HandlerOf[request].out.message_text :
        request \in {q \in Requests : HandlerOf[q].out.r = "await"}}

(***************************************************************************)
(* services/agent_service.py: the responses                                *)
(***************************************************************************)
NoAttachments == <<>>

_create_success_response(route_info) ==
    [kind |-> "success",
     text |-> route_info.summary,
     attachments |-> <<[type |-> "link", url |-> route_info.map_url]>>,
     quick_replies |-> <<"Get another route", "Help">>,
     metadata |-> [distance_km |-> route_info.distance_km,
                   duration_minutes |-> route_info.duration_minutes]]

_create_help_response ==
    [kind |-> "help", text |-> [template |-> "help"], attachments |-> NoAttachments,
     quick_replies |-> <<"Get directions", "Example route">>]

_create_parse_error_response ==
    [kind |-> "parse_error", text |-> [template |-> "parse_error"],
     attachments |-> NoAttachments, quick_replies |-> <<"Help", "Try again">>]

_create_validation_error_response(location_type, error) ==
    [kind |-> "validation_error",
     text |-> [template |-> "invalid", location_type |-> location_type, error |-> error],
     attachments |-> NoAttachments, quick_replies |-> <<"Help", "Try again">>]

_create_route_error_response(origin, destination) ==
    [kind |-> "route_error",
     text |-> [template |-> "route_error", origin |-> origin, destination |-> destination],
     attachments |-> NoAttachments, quick_replies |-> <<"Try different locations", "Help">>]

\* process_message without lines 46-53: the names are not validated
Front_NoValidation(m) ==
    LET Parsed(locations) ==
            IF locations = <<>>
            THEN [returns |-> TRUE, response |-> _create_parse_error_response]
            ELSE [returns |-> FALSE,
                  origin_name |-> sanitize_location(locations[1]),
                  dest_name |-> sanitize_location(locations[2])]
    IN IF ~is_route_request(m) THEN [returns |-> TRUE, response |-> _create_help_response]
       ELSE Parsed(parse_route_request(m))

\* process_message with lines 52-53 ahead of lines 50-51: the destination is
\* checked first
Front_DestFirst(m) ==
    LET Validated(locations, o, d) ==
            IF ~d.valid
            THEN [returns |-> TRUE,
                  response |-> _create_validation_error_response("destination", d.error)]
            ELSE IF ~o.valid
            THEN [returns |-> TRUE,
                  response |-> _create_validation_error_response("origin", o.error)]
            ELSE [returns |-> FALSE,
                  origin_name |-> sanitize_location(locations[1]),
                  dest_name |-> sanitize_location(locations[2])]
        Parsed(locations) ==
            IF locations = <<>>
            THEN [returns |-> TRUE, response |-> _create_parse_error_response]
            ELSE Validated(locations, validate_location(locations[1]),
                           validate_location(locations[2]))
    IN IF ~is_route_request(m) THEN [returns |-> TRUE, response |-> _create_help_response]
       ELSE Parsed(parse_route_request(m))

\* process_message, lines 35-57, which run without suspending: the response it
\* returns at once, or the sanitized names it goes on with
Front(m) ==
    LET Validated(locations, o, d) ==
            IF ~o.valid
            THEN [returns |-> TRUE,
                  response |-> _create_validation_error_response("origin", o.error)]
            ELSE IF ~d.valid
            THEN [returns |-> TRUE,
                  response |-> _create_validation_error_response("destination", d.error)]
            ELSE [returns |-> FALSE,
                  origin_name |-> sanitize_location(locations[1]),
                  dest_name |-> sanitize_location(locations[2])]
        Parsed(locations) ==
            IF locations = <<>>
            THEN [returns |-> TRUE, response |-> _create_parse_error_response]
            ELSE Validated(locations, validate_location(locations[1]),
                           validate_location(locations[2]))
    IN IF ~is_route_request(m) THEN [returns |-> TRUE, response |-> _create_help_response]
       ELSE Parsed(parse_route_request(m))

\* Front, computed once for each message of the model and each text the webhook
\* passes on
FrontOf == [m \in Messages \cup WebhookTexts |-> Front(m)]

(***************************************************************************)
(* State                                                                   *)
(***************************************************************************)
VARIABLES
    cache,         \* RoutingService.cache: key -> [route_info, age]
    pc,            \* where the call in progress is suspended: "idle" (no call),
                   \* "gather" (await asyncio.gather), "get" (await client.get),
                   \* "backoff" (await asyncio.sleep in calculate_route),
                   \* "retry_sleep" (await asyncio.sleep in _get_route_with_retry),
                   \* "done" (the call has returned or raised)
    mode,          \* "none", "agent" (process_message) or "direct" (calculate_route)
    message,       \* process_message's argument
    origin_name,   \* _get_route_with_retry's arguments
    dest_name,
    attempt,       \* _get_route_with_retry's loop variable
    geo,           \* the two lookups of the gather in progress
    orphans,       \* lookups still running after their gather raised
    rt,            \* the attempt's calculate_route: arguments, locals, what it did
    route_result,  \* what calculate_route returned (a RouteInfo or none) or that it
                   \* raised, in this attempt
    response,      \* what process_message returned
    ag_sleeps,     \* the delays _get_route_with_retry slept, in order
    geo_calls,     \* geocoding requests issued by the call
    dir_calls,     \* directions requests issued by the call
    hw,            \* handle_webhook: the request in progress and what it answered
    pure,          \* a call of a function of utils/: its argument and its result
    calls,         \* calculate_route calls that run as tasks of one event loop on
                   \* one RoutingService: where each stands, its arguments, locals
    running        \* the task the event loop is running, between two awaits

vars == <<cache, pc, mode, message, origin_name, dest_name, attempt, geo, orphans,
          rt, route_result, response, ag_sleeps, geo_calls, dir_calls, hw, pure,
          calls, running>>

EmptyCache == [k \in {} |-> NoneVal]
Unset == [unset |-> TRUE]
Raised == [raised |-> TRUE]
NoName == <<>>
GeoIdle == [st |-> "idle"]
GeoPending == [st |-> "pending"]
GeoNone == [origin |-> GeoIdle, destination |-> GeoIdle]
RtIdle == [active |-> FALSE]
HwIdle == [stage |-> "idle"]
PureIdle == [fn |-> "none"]
Tasks == {"call_1", "call_2"}
NoTask == "none"
IdleCall == [at |-> "idle"]
Slots == {"origin", "destination"}

IsRoute(r) == "map_url" \in DOMAIN r

\* the services as constructed, no call in progress
NoCall ==
    /\ cache = EmptyCache
    /\ pc = "idle"
    /\ mode = "none"
    /\ message = <<>>
    /\ origin_name = NoName
    /\ dest_name = NoName
    /\ attempt = 0
    /\ geo = GeoNone
    /\ orphans = 0
    /\ rt = RtIdle
    /\ route_result = Unset
    /\ response = Unset
    /\ ag_sleeps = <<>>
    /\ geo_calls = 0
    /\ dir_calls = 0
    /\ calls = [t \in Tasks |-> IdleCall]
    /\ running = NoTask

service_vars == <<cache, pc, mode, message, origin_name, dest_name, attempt, geo,
                  orphans, rt, route_result, response, ag_sleeps, geo_calls, dir_calls>>

Init ==
    /\ NoCall
    /\ hw = HwIdle
    /\ pure = PureIdle

(***************************************************************************)
(* services/agent_service.py: _get_route_with_retry and the end of         *)
(* process_message                                                         *)
(***************************************************************************)
\* lines 87-93: an attempt issues both lookups and awaits the gather
StartAttempt(a) ==
    /\ attempt' = a
    /\ geo' = [origin |-> GeoPending, destination |-> GeoPending]
    /\ geo_calls' = geo_calls + 2
    /\ route_result' = Unset
    /\ rt' = RtIdle
    /\ pc' = "gather"

\* _get_route_with_retry returns none: lines 62-63
ReturnRouteError ==
    /\ pc' = "done"
    /\ response' = _create_route_error_response(origin_name, dest_name)
    /\ UNCHANGED ag_sleeps

\* lines 109-120 with a delay that grows linearly
AttemptFailed_Linear ==
    IF attempt < settings_max_retries - 1
    THEN /\ pc' = "retry_sleep"
         /\ ag_sleeps' = Append(ag_sleeps, settings_retry_delay * 2 * attempt)
         /\ UNCHANGED response
    ELSE ReturnRouteError

\* lines 109-120 with one attempt more than settings.max_retries
AttemptFailed_OneMore ==
    IF attempt < settings_max_retries
    THEN /\ pc' = "retry_sleep"
         /\ ag_sleeps' = Append(ag_sleeps, settings_retry_delay * Pow2(attempt))
         /\ UNCHANGED response
    ELSE ReturnRouteError

\* lines 109-120: the attempt gave no route, or raised: sleep if attempts remain,
\* else the loop ends and none is returned
AttemptFailed ==
    IF attempt < settings_max_retries - 1
    THEN /\ pc' = "retry_sleep"
         /\ ag_sleeps' = Append(ag_sleeps, settings_retry_delay * Pow2(attempt))
         /\ UNCHANGED response
    ELSE ReturnRouteError

\* the attempt without lines 115-118: the exception leaves process_message
OnException_Propagate ==
    /\ pc' = "done"
    /\ response' = Raised
    /\ UNCHANGED ag_sleeps

\* lines 115-118: an exception of the attempt is caught
OnException == AttemptFailed

\* lines 95-101 with "continue" for "return None": a lookup that gave none fails
\* the attempt only
GeocodeFailed_Retry == AttemptFailed

\* lines 95-101: a lookup gave none
GeocodeFailed == ReturnRouteError

\* calculate_route returns r (a RouteInfo or none) or raises: to its direct
\* caller, or to line 104 of _get_route_with_retry
RouteReturns(r) ==
    /\ route_result' = r
    /\ IF mode' = "direct"
       THEN /\ pc' = "done"
            /\ UNCHANGED <<response, ag_sleeps>>
       ELSE IF IsRoute(r)
       THEN /\ pc' = "done"
            /\ response' = _create_success_response(r)
            /\ UNCHANGED ag_sleeps
       ELSE IF r = Raised THEN OnException
       ELSE AttemptFailed

(***************************************************************************)
(* services/routing_service.py: calculate_route                            *)
(***************************************************************************)
\* lines 37-61: the cache lookup, and the first request unless the entry is fresh
CalcEnter(o, d, mr, bf) ==
    LET key == cache_key(o, d)
        args == [origin |-> o, destination |-> d, max_retries |-> mr,
                 backoff_factor |-> bf, attempt |-> 0, waits |-> <<>>,
                 outcomes |-> <<>>]
    IN IF key \in DOMAIN cache /\ Fresh(cache[key])
       THEN /\ rt' = args @@ [lookup |-> "hit", requests |-> 0]
            /\ cache' = CacheHit(cache, key)
            /\ UNCHANGED dir_calls
            /\ RouteReturns(cache[key].route_info)
       ELSE /\ cache' = IF key \in DOMAIN cache THEN CacheDel(cache, key) ELSE cache
            /\ IF RetryAllowed(0, mr)
               THEN /\ rt' = args @@ [lookup |-> IF key \in DOMAIN cache
                                                THEN "expired" ELSE "miss",
                                      requests |-> 1]
                    /\ dir_calls' = dir_calls + 1
                    /\ pc' = "get"
                    /\ UNCHANGED <<route_result, response, ag_sleeps>>
               ELSE /\ rt' = args @@ [lookup |-> IF key \in DOMAIN cache
                                                THEN "expired" ELSE "miss",
                                      requests |-> 0]
                    /\ UNCHANGED dir_calls
                    /\ RouteReturns(NoneVal)

(***************************************************************************)
(* Actions                                                                 *)
(***************************************************************************)
\* process_message(m), up to its first await or its early return
process_message(m) ==
    /\ pc = "idle"
    /\ mode' = "agent"
    /\ message' = m
    /\ \E front \in {FrontOf[m]} :
          IF front.returns
          THEN /\ pc' = "done"
               /\ response' = front.response
               /\ UNCHANGED <<origin_name, dest_name, attempt, geo, geo_calls,
                            route_result, rt>>
          ELSE /\ origin_name' = front.origin_name
               /\ dest_name' = front.dest_name
               /\ StartAttempt(0)
               /\ UNCHANGED response
    /\ UNCHANGED <<cache, orphans, ag_sleeps, dir_calls>>

\* a call of process_message(m) from outside the webhook
ProcessMessage(m) ==
    /\ process_message(m)
    /\ UNCHANGED <<hw, pure, calls, running>>

\* a direct call calculate_route(o, d, mr, bf), up to its first await or its
\* return from the cache
CalculateRoute(o, d, mr, bf) ==
    /\ pc = "idle"
    /\ mode' = "direct"
    /\ CalcEnter(o, d, mr, bf)
    /\ UNCHANGED <<message, origin_name, dest_name, attempt, geo, orphans, geo_calls>>
    /\ UNCHANGED <<hw, pure, calls, running>>

SlotName(slot) == IF slot = "origin" THEN origin_name ELSE dest_name

\* geocode(name) of the gather in progress ends
GeocodeReturn(slot) ==
    /\ pc = "gather"
    /\ geo[slot].st = "pending"
    /\ \/ \E xy \in GeoCoords :
            geo' = [geo EXCEPT ![slot] =
                       [st |-> "ok", loc |-> Location(SlotName(slot), xy[1], xy[2])]]
       \/ geo' = [geo EXCEPT ![slot] = [st |-> "none"]]
       \/ geo' = [geo EXCEPT ![slot] = [st |-> "raise"]]
    /\ UNCHANGED <<cache, pc, mode, message, origin_name, dest_name, attempt, orphans,
                   rt, route_result, response, ag_sleeps, geo_calls, dir_calls>>
    /\ UNCHANGED <<hw, pure, calls, running>>

\* line 93 resumes: the gather raises as soon as one lookup raised (the other is
\* left running), and returns when both have ended; then lines 95-104
GatherResume ==
    LET pending == {s \in Slots : geo[s].st = "pending"}
        raised == \E s \in Slots : geo[s].st = "raise"
    IN
    /\ pc = "gather"
    /\ raised \/ pending = {}
    /\ UNCHANGED <<hw, pure, calls, running>>
    /\ UNCHANGED <<mode, message, origin_name, dest_name, attempt, geo_calls>>
    /\ orphans + Cardinality(pending) <= MaxOrphans
    /\ orphans' = orphans + Cardinality(pending)
    /\ geo' = [s \in Slots |-> IF s \in pending THEN [st |-> "abandoned"] ELSE geo[s]]
    /\ IF raised
       THEN /\ OnException
            /\ UNCHANGED <<cache, rt, route_result, dir_calls>>
       ELSE IF geo.origin.st = "none" \/ geo.destination.st = "none"
       THEN /\ GeocodeFailed
            /\ UNCHANGED <<cache, rt, route_result, dir_calls>>
       ELSE CalcEnter(geo.origin.loc, geo.destination.loc,
                      DEFAULT_MAX_RETRIES, DEFAULT_BACKOFF_FACTOR)

\* line 61 resumes with the provider's answer; lines 63-103
RouteResponse(outcome) ==
    /\ pc = "get"
    /\ UNCHANGED <<hw, pure, calls, running>>
    /\ UNCHANGED <<mode, message, origin_name, dest_name, attempt, geo, orphans,
                   geo_calls, dir_calls>>
    /\ LET seen == [rt EXCEPT !.outcomes = Append(@, outcome)] IN
       IF RateLimited(outcome)
       THEN /\ rt' = [seen EXCEPT
                        !.waits = Append(@, WaitTime(rt.backoff_factor, rt.attempt))]
            /\ pc' = "backoff"
            /\ UNCHANGED <<cache, route_result, response, ag_sleeps>>
       ELSE IF outcome = "ok"
       THEN \E route \in ProviderRoutes :
               LET route_info == RouteInfo(rt.origin, rt.destination, route) IN
               /\ rt' = seen
               /\ cache' = CachePut(cache, cache_key(rt.origin, rt.destination),
                                    route_info)
               /\ RouteReturns(route_info)
       ELSE IF outcome = "type_error"
       THEN /\ rt' = seen
            /\ UNCHANGED cache
            /\ RouteReturns(Raised)
       ELSE /\ rt' = seen
            /\ UNCHANGED cache
            /\ RouteReturns(NoneVal)

\* line 67 resumes after wait_time seconds; lines 68-69, then the next request or
\* lines 105-106
BackoffDone ==
    /\ pc = "backoff"
    /\ UNCHANGED <<hw, pure, calls, running>>
    /\ UNCHANGED <<mode, message, origin_name, dest_name, attempt, geo, orphans,
                   geo_calls>>
    /\ cache' = Age(cache, rt.waits[Len(rt.waits)])
    /\ IF RetryAllowed(rt.attempt + 1, rt.max_retries)
       THEN /\ rt' = [rt EXCEPT !.attempt = @ + 1, !.requests = @ + 1]
            /\ dir_calls' = dir_calls + 1
            /\ pc' = "get"
            /\ UNCHANGED <<route_result, response, ag_sleeps>>
       ELSE /\ rt' = [rt EXCEPT !.attempt = @ + 1]
            /\ UNCHANGED dir_calls
            /\ RouteReturns(NoneVal)

\* line 113 or 118 resumes after the delay: the next attempt begins
RetrySleepDone ==
    /\ pc = "retry_sleep"
    /\ UNCHANGED <<hw, pure, calls, running>>
    /\ cache' = Age(cache, ag_sleeps[Len(ag_sleeps)])
    /\ StartAttempt(attempt + 1)
    /\ UNCHANGED <<mode, message, origin_name, dest_name, orphans, response,
                   ag_sleeps, dir_calls>>

\* the caller has the result; the next call may begin
ReturnToCaller ==
    /\ pc = "done"
    /\ pc' = "idle"
    /\ mode' = "none"
    /\ message' = <<>>
    /\ origin_name' = NoName
    /\ dest_name' = NoName
    /\ attempt' = 0
    /\ geo' = GeoNone
    /\ rt' = RtIdle
    /\ route_result' = Unset
    /\ response' = Unset
    /\ ag_sleeps' = <<>>
    /\ geo_calls' = 0
    /\ dir_calls' = 0
    /\ UNCHANGED <<cache, orphans>>

\* a call from outside the webhook has returned
Deliver ==
    /\ hw = HwIdle
    /\ ReturnToCaller
    /\ UNCHANGED <<hw, pure, calls, running>>

\* a lookup left running by a gather that raised ends; nobody awaits it
OrphanDone ==
    /\ orphans > 0
    /\ orphans' = orphans - 1
    /\ UNCHANGED <<cache, pc, mode, message, origin_name, dest_name, attempt, geo, rt,
                   route_result, response, ag_sleeps, geo_calls, dir_calls>>
    /\ UNCHANGED <<hw, pure, calls, running>>

\* a second passes between calls
Tick ==
    /\ pc = "idle"
    /\ cache' = Age(cache, 1)
    /\ cache' # cache
    /\ UNCHANGED <<pc, mode, message, origin_name, dest_name, attempt, geo, orphans, rt,
                   route_result, response, ag_sleeps, geo_calls, dir_calls>>
    /\ UNCHANGED <<hw, pure, calls, running>>

Next ==
    \/ \E m \in Messages : ProcessMessage(m)
    \/ \E o \in DirectOrigins, d \in DirectDestinations,
          mr \in DirectRetries, bf \in DirectBackoffs : CalculateRoute(o, d, mr, bf)
    \/ \E slot \in Slots : GeocodeReturn(slot)
    \/ GatherResume
    \/ \E outcome \in RouteOutcomes : RouteResponse(outcome)
    \/ BackoffDone
    \/ RetrySleepDone
    \/ Deliver
    \/ OrphanDone
    \/ Tick

Spec == Init /\ [][Next]_vars

(***************************************************************************)
(* utils/validators.py and utils/parsers.py called on their own            *)
(***************************************************************************)
\* the longest of the strings made of PureAlphabet
PureMaxLen == 5

PureAlphabet == {"a", " ", "<", ";"}

SeqsUpTo(S, n) == UNION {[1..k -> S] : k \in 0..n}

Repeat(c, n) == [i \in 1..n |-> c]

\* str.upper()
Upper(s) == [i \in 1..Len(s) |-> ToUpper(s[i])]

\* s in lower case but for its last character
LastUpper(s) == [i \in 1..Len(s) |-> IF i = Len(s) THEN ToUpper(s[i]) ELSE ToLower(s[i])]

ShortStrings == SeqsUpTo(PureAlphabet, PureMaxLen)

\* strings about MAX_LENGTH long, with and without blanks around them, and
\* strings of the other characters validate_location knows
LongStrings ==
    {Repeat("a", n) : n \in {MAX_LENGTH - 1, MAX_LENGTH, MAX_LENGTH + 1}}
    \cup {<<" ">> \o Repeat("a", MAX_LENGTH) \o <<" ">>,
          <<" ">> \o Repeat("a", MAX_LENGTH + 1),
          <<"S","t",".","-",",","9">>, <<"a","\t","b">>, <<"a","_","b">>,
          <<"a","\t">>, <<"N","e","w"," ","Y","o","r","k">>}

Blanks == {<<" ">>, <<" ", " ">>}

\* "directions from A to B" in several letter casings, with one or two blanks
\* between the words: the text, with A and B as written
DirectionsForms ==
    {[text |-> d \o b \o f \o b \o A \o b \o t \o b \o B, form |-> <<A, B>>] :
        d \in {Lower(W_directions), Upper(W_directions), Title(W_directions)},
        f \in {Lower(W_from), Upper(W_from), Title(W_from)},
        t \in {Lower(W_to), Upper(W_to), Title(W_to), LastUpper(W_to)},
        A \in {Lower(N_Lagos), Upper(N_Lagos), Title(N_Lagos), LastUpper(N_Lagos)},
        B \in {Lower(N_Abuja), Upper(N_Abuja), Title(N_Abuja)},
        b \in Blanks}

NoForm == <<>>

\* the calls made: the function, its argument and, for a message built as
\* "directions from A to B", its A and B
PureCalls ==
    {[of |-> "sanitize_location", text |-> x, form |-> NoForm] : x \in ShortStrings}
    \cup {[of |-> "validate_location", text |-> x, form |-> NoForm] :
             x \in ShortStrings \cup LongStrings}
    \cup {[of |-> "parse_route_request", text |-> x.text, form |-> x.form] :
             x \in DirectionsForms}
    \cup {[of |-> "parse_route_request", text |-> m, form |-> NoForm] : m \in Messages}

\* the longest duration summarised, in minutes
MaxSummaryMinutes == 130

\* durations in seconds: whole minutes and the second before the next one, the
\* five hours of the test route, and a negative duration
SummarySeconds ==
    {60 * m + e : m \in 0..MaxSummaryMinutes, e \in {0, 59}} \cup {18000, -90}

InitPure ==
    /\ NoCall
    /\ hw = HwIdle
    /\ pure \in {[fn |-> "call", of |-> c.of, arg |-> c.text, form |-> c.form] :
                    c \in PureCalls}
                \cup {[fn |-> "call", of |-> "_create_summary", seconds |-> n] :
                         n \in SummarySeconds}

\* LocationValidator.sanitize_location(arg)
Sanitize ==
    /\ pure.fn = "call"
    /\ pure.of = "sanitize_location"
    /\ pure' = [fn |-> "sanitize_location", arg |-> pure.arg,
                ret |-> sanitize_location(pure.arg)]
    /\ UNCHANGED <<service_vars, hw, calls, running>>

\* LocationValidator.sanitize_location of what sanitize_location returned
SanitizeAgain ==
    /\ pure.fn = "sanitize_location"
    /\ pure' = [fn |-> "sanitize_location twice", arg |-> pure.arg, once |-> pure.ret,
                ret |-> sanitize_location(pure.ret)]
    /\ UNCHANGED <<service_vars, hw, calls, running>>

\* LocationValidator.validate_location(arg)
Validate ==
    /\ pure.fn = "call"
    /\ pure.of = "validate_location"
    /\ pure' = [fn |-> "validate_location", arg |-> pure.arg,
                ret |-> validate_location(pure.arg)]
    /\ UNCHANGED <<service_vars, hw, calls, running>>

\* MessageParser.parse_route_request(arg)
Parse ==
    /\ pure.fn = "call"
    /\ pure.of = "parse_route_request"
    /\ pure' = [fn |-> "parse_route_request", arg |-> pure.arg, form |-> pure.form,
                ret |-> parse_route_request(pure.arg)]
    /\ UNCHANGED <<service_vars, hw, calls, running>>

\* RoutingService._create_summary for a route of 1200 km that takes
\* pure.seconds seconds
Summarize ==
    /\ pure.fn = "call"
    /\ pure.of = "_create_summary"
    /\ pure' = [fn |-> "_create_summary", seconds |-> pure.seconds,
                ret |-> _create_summary(N_Lagos, N_Abuja, 1200000, pure.seconds)]
    /\ UNCHANGED <<service_vars, hw, calls, running>>

NextPure ==
    \/ Sanitize
    \/ SanitizeAgain
    \/ Validate
    \/ Parse
    \/ Summarize

SpecPure == InitPure /\ [][NextPure]_vars

(***************************************************************************)
(* app/webhook.py: handle_webhook                                          *)
(***************************************************************************)
\* POST /webhook, up to the await of process_message, the response returned
\* at once or the exception that leaves the handler
HandleWebhook(request) ==
    /\ hw = HwIdle
    /\ pc = "idle"
    /\ \E front \in {HandlerOf[request]} :
          IF front.out.r = "await"
          THEN /\ process_message(front.out.message_text)
               /\ hw' = [stage |-> "await", request |-> request, rid |-> front.out.rid,
                         message_text |-> front.out.message_text]
          ELSE /\ hw' = IF front.out.r = "raise"
                        THEN [stage |-> "raised", request |-> request,
                              exc |-> front.out.exc, caught |-> front.caught,
                              called |-> FALSE]
                        ELSE [stage |-> "returned", request |-> request,
                              response |-> front.out.v, caught |-> front.caught,
                              called |-> FALSE]
               /\ UNCHANGED service_vars
    /\ UNCHANGED <<pure, calls, running>>

\* lines 179-189 and 214-224: process_message has returned; an exception it
\* raised goes to the except block
HandlerResume ==
    /\ hw.stage = "await"
    /\ pc = "done"
    /\ hw' = IF response = Raised
             THEN [stage |-> "returned", request |-> hw.request,
                   response |-> ExceptBlock(hw.request, [type |-> "Exception"]).v,
                   caught |-> [type |-> "Exception"], called |-> TRUE]
             ELSE [stage |-> "returned", request |-> hw.request,
                   response |-> JSONResponse(make_task_result(
                                    hw.rid, response.text, "completed",
                                    JStr(hw.message_text), response.attachments,
                                    response.quick_replies)),
                   caught |-> NoException, called |-> TRUE]
    /\ ReturnToCaller
    /\ UNCHANGED <<pure, calls, running>>

\* the client has its answer; the next request may come
HandlerDone ==
    /\ hw.stage \in {"returned", "raised"}
    /\ hw' = HwIdle
    /\ UNCHANGED service_vars
    /\ UNCHANGED <<pure, calls, running>>

NextWebhook ==
    \/ \E request \in Requests : HandleWebhook(request)
    \/ \E slot \in Slots : GeocodeReturn(slot)
    \/ GatherResume
    \/ \E outcome \in RouteOutcomes : RouteResponse(outcome)
    \/ BackoffDone
    \/ RetrySleepDone
    \/ HandlerResume
    \/ HandlerDone
    \/ OrphanDone
    \/ Tick

SpecWebhook == Init /\ [][NextWebhook]_vars

(***************************************************************************)
(* services/routing_service.py: calculate_route calls that overlap on one  *)
(* RoutingService, line by line between the awaits                         *)
(***************************************************************************)
\* where a call stands: "idle" (not called), before line 39 ("test"), 40
\* ("read"), 41 ("check") or 46 ("del"), suspended in line 61 ("get") or 67
\* ("backoff"), or ended ("done")
call_vars == <<pc, mode, message, origin_name, dest_name, attempt, geo, orphans, rt,
               route_result, response, ag_sleeps, geo_calls, dir_calls, hw, pure>>

\* lines 40 and 46 on a key that is not in the dict
CacheKeyError == [KeyError |-> TRUE]

\* arguments of the overlapping calls: one pair of places under two spellings,
\* and the reverse pair
ConcOrigins == {Location(N_LAGOS, 6, 3), Location(N_Lagos, 6, 3)}
ConcDestinations == {Location(N_Abuja, 9, 7)}
ConcPairs ==
    {<<o, d>> : o \in ConcOrigins, d \in ConcDestinations}
    \cup {<<d, o>> : o \in {Location(N_Lagos, 6, 3)}, d \in ConcDestinations}
ConcRetries == {1}

KeyOf(c) == cache_key(c.origin, c.destination)

\* a scheduler that may switch tasks after any line
Yields_Preemptive(at) == TRUE

\* the event loop switches tasks only where the running one awaits (lines 61 and
\* 67) or has ended
Yields(at) == at \in {"idle", "get", "backoff", "done"}

\* the loop runs task t if it is the running one, or if none is running
MayRun(t) == running \in {t, NoTask}

\* task t goes on as c, up to where c stands
Run(t, c) ==
    /\ calls' = [calls EXCEPT ![t] = c]
    /\ running' = IF Yields(c.at) THEN NoTask ELSE t

\* lines 48-61, or 105-106 when the loop does not run
Request(c) ==
    IF RetryAllowed(c.attempt, c.max_retries)
    THEN [c EXCEPT !.at = "get", !.requests = @ + 1]
    ELSE [c EXCEPT !.at = "done", !.result = NoneVal]

Ended(c, r) == [c EXCEPT !.at = "done", !.result = r]

\* calculate_route(o, d, mr) is called as task t: line 37
CallStart(t, o, d, mr) ==
    /\ calls[t].at = "idle"
    /\ MayRun(t)
    /\ Run(t, [at |-> "test", origin |-> o, destination |-> d, max_retries |-> mr,
               backoff_factor |-> DEFAULT_BACKOFF_FACTOR, attempt |-> 0,
               requests |-> 0, lookup |-> "none", entry |-> Unset, result |-> Unset])
    /\ UNCHANGED cache
    /\ UNCHANGED call_vars

\* line 39
CallTest(t) ==
    LET c == calls[t] IN
    /\ c.at = "test"
    /\ MayRun(t)
    /\ IF KeyOf(c) \in DOMAIN cache
       THEN Run(t, [c EXCEPT !.at = "read"])
       ELSE Run(t, Request([c EXCEPT !.lookup = "miss"]))
    /\ UNCHANGED cache
    /\ UNCHANGED call_vars

\* line 40
CallRead(t) ==
    LET c == calls[t] IN
    /\ c.at = "read"
    /\ MayRun(t)
    /\ IF KeyOf(c) \in DOMAIN cache
       THEN Run(t, [c EXCEPT !.at = "check", !.entry = cache[KeyOf(c)]])
       ELSE Run(t, Ended(c, CacheKeyError))
    /\ UNCHANGED cache
    /\ UNCHANGED call_vars

\* lines 41-45
CallCheck(t) ==
    LET c == calls[t] IN
    /\ c.at = "check"
    /\ MayRun(t)
    /\ IF Fresh(c.entry)
       THEN Run(t, Ended([c EXCEPT !.lookup = "hit"], c.entry.route_info))
       ELSE Run(t, [c EXCEPT !.at = "del"])
    /\ UNCHANGED cache
    /\ UNCHANGED call_vars

\* line 46, and on to the first request
CallDel(t) ==
    LET c == calls[t] IN
    /\ c.at = "del"
    /\ MayRun(t)
    /\ IF KeyOf(c) \in DOMAIN cache
       THEN /\ cache' = CacheDel(cache, KeyOf(c))
            /\ Run(t, Request([c EXCEPT !.lookup = "expired"]))
       ELSE /\ UNCHANGED cache
            /\ Run(t, Ended(c, CacheKeyError))
    /\ UNCHANGED call_vars

\* line 61 resumes in task t with the provider's answer; lines 63-103
CallResponse(t, outcome) ==
    LET c == calls[t] IN
    /\ c.at = "get"
    /\ MayRun(t)
    /\ IF RateLimited(outcome)
       THEN /\ Run(t, [c EXCEPT !.at = "backoff"])
            /\ UNCHANGED cache
       ELSE IF outcome = "ok"
       THEN \E route \in ProviderRoutes :
               LET route_info == RouteInfo(c.origin, c.destination, route) IN
               /\ cache' = CachePut(cache, KeyOf(c), route_info)
               /\ Run(t, Ended(c, route_info))
       ELSE IF outcome = "type_error"
       THEN /\ Run(t, Ended(c, Raised))
            /\ UNCHANGED cache
       ELSE /\ Run(t, Ended(c, NoneVal))
            /\ UNCHANGED cache
    /\ UNCHANGED call_vars

\* line 67 resumes in task t; lines 68-69, then the next request or lines 105-106
CallBackoffDone(t) ==
    LET c == calls[t] IN
    /\ c.at = "backoff"
    /\ MayRun(t)
    /\ cache' = Age(cache, WaitTime(c.backoff_factor, c.attempt))
    /\ Run(t, Request([c EXCEPT !.attempt = @ + 1]))
    /\ UNCHANGED call_vars

\* the caller of task t has the result
CallReturn(t) ==
    /\ calls[t].at = "done"
    /\ MayRun(t)
    /\ Run(t, IdleCall)
    /\ UNCHANGED cache
    /\ UNCHANGED call_vars

\* a second passes while no task runs
Elapse ==
    /\ running = NoTask
    /\ cache' = Age(cache, 1)
    /\ cache' # cache
    /\ UNCHANGED <<calls, running>>
    /\ UNCHANGED call_vars

NextConc ==
    \/ \E t \in Tasks, od \in ConcPairs, mr \in ConcRetries :
          CallStart(t, od[1], od[2], mr)
    \/ \E t \in Tasks : CallTest(t)
    \/ \E t \in Tasks : CallRead(t)
    \/ \E t \in Tasks : CallCheck(t)
    \/ \E t \in Tasks : CallDel(t)
    \/ \E t \in Tasks, outcome \in RouteOutcomes : CallResponse(t, outcome)
    \/ \E t \in Tasks : CallBackoffDone(t)
    \/ \E t \in Tasks : CallReturn(t)
    \/ Elapse

SpecConc == Init /\ [][NextConc]_vars

(***************************************************************************)
(* Properties                                                              *)
(***************************************************************************)
\* a step that enters calculate_route
EntersCalc == rt = RtIdle /\ rt' # RtIdle

\* a step in which client.get returns or raises
GetsAnswer == pc = "get" /\ rt'.outcomes # rt.outcomes

LastOf(seq) == seq[Len(seq)]

All429(seq) == \A i \in 1..Len(seq) : seq[i] = "429"

OtherFailures == {"http_error", "network_error", "malformed"}

\* C1: a call of calculate_route that finds an entry for its pair stored less than
\* ttl ago returns that entry's RouteInfo with no request and leaves the cache as
\* it is; a call that finds no entry, or one stored ttl or more ago, issues a
\* request, with the old entry deleted; and a call answered successfully at its
\* first request has issued one request and stored its RouteInfo under the pair.
\* So two calls within the ttl make one request, and the next call after the ttl
\* makes a second.
C1_CacheRoundTrip ==
    [][ /\ EntersCalc =>
            LET key == <<Lower(rt'.origin.name), Lower(rt'.destination.name)>> IN
            IF key \in DOMAIN cache /\ cache[key].age < CacheTtl
            THEN /\ rt'.requests = 0
                 /\ dir_calls' = dir_calls
                 /\ route_result' = cache[key].route_info
                 /\ cache' = cache
                 /\ pc' \notin {"get", "backoff"}
            ELSE /\ rt'.requests = 1
                 /\ dir_calls' = dir_calls + 1
                 /\ pc' = "get"
                 /\ key \notin DOMAIN cache'
        /\ (GetsAnswer /\ rt'.outcomes = <<"ok">>) =>
            LET key == <<Lower(rt.origin.name), Lower(rt.destination.name)>> IN
            /\ rt'.requests = 1
            /\ key \in DOMAIN cache'
            /\ cache'[key] = [route_info |-> route_result', age |-> 0]
      ]_vars

\* a direct call has returned a RouteInfo from the cache, without a request
C1_Witness ==
    /\ pc = "done"
    /\ mode = "direct"
    /\ rt.lookup = "hit"
    /\ rt.requests = 0
    /\ IsRoute(route_result)

\* C2: when the provider answers 429 k times, k < max_retries, and then
\* successfully, calculate_route has returned the RouteInfo of that answer after
\* k waits, the i-th (from 0) of backoff_factor * 2^i, and k + 1 requests.
C2_RetryBackoff ==
    (/\ rt # RtIdle
     /\ rt.outcomes # <<>>
     /\ LastOf(rt.outcomes) = "ok"
     /\ All429(SubSeq(rt.outcomes, 1, Len(rt.outcomes) - 1))
     /\ Len(rt.outcomes) - 1 < rt.max_retries)
    => LET k == Len(rt.outcomes) - 1 IN
       /\ pc = "done"
       /\ IsRoute(route_result)
       /\ route_result.origin = rt.origin
       /\ route_result.destination = rt.destination
       /\ Len(rt.waits) = k
       /\ \A i \in 0..(k - 1) : rt.waits[i + 1] = rt.backoff_factor * 2^i
       /\ rt.requests = k + 1

\* two 429 answers, then a successful one, with a backoff factor other than 1
C2_Witness ==
    /\ rt # RtIdle
    /\ rt.outcomes = <<"429", "429", "ok">>
    /\ rt.backoff_factor = 2
    /\ rt.waits = <<2, 4>>
    /\ IsRoute(route_result)

\* C3: while the provider answers 429 to every request, calculate_route makes at
\* most max_retries + 1 requests (the first and max_retries retries); it ends
\* after the wait that follows the last of them, returning none, and its pair
\* has no entry in the cache.
C3_RateLimitExhaustion ==
    (rt # RtIdle /\ rt.outcomes # <<>> /\ All429(rt.outcomes))
    => /\ rt.requests <= rt.max_retries + 1
       /\ Len(rt.outcomes) <= rt.max_retries + 1
       /\ pc \in {"get", "backoff", "done", "retry_sleep"}
       /\ (pc \in {"done", "retry_sleep"})
          => /\ route_result = NoneVal
             /\ rt.requests = rt.max_retries + 1
             /\ Len(rt.outcomes) = rt.max_retries + 1
             /\ cache_key(rt.origin, rt.destination) \notin DOMAIN cache

\* a direct call with the default max_retries has ended after four 429 answers
C3_Witness ==
    /\ pc = "done"
    /\ mode = "direct"
    /\ rt.max_retries = DEFAULT_MAX_RETRIES
    /\ rt.outcomes = <<"429", "429", "429", "429">>
    /\ route_result = NoneVal

ResponseKinds == {"help", "parse_error", "validation_error", "route_error", "success"}

\* the responses of lines 37, 42, 51 and 53
EarlyKinds == {"help", "parse_error", "validation_error"}

\* both names of a parsed pair are valid (lines 47-53)
BothValid(locations) ==
    /\ validate_location(locations[1]).valid
    /\ validate_location(locations[2]).valid

\* what parse_route_request gives is a pair, of valid names (lines 41-53)
ParsedValid(locations) == locations # <<>> /\ BothValid(locations)

\* message m passes lines 36, 41, 50 and 52
PassesChecks(m) == is_route_request(m) /\ ParsedValid(parse_route_request(m))

\* a step in which line 93 resumes
GatherEnds == pc = "gather" /\ pc' # "gather"

\* C5: whenever process_message has ended, it has returned a response of one of
\* its five kinds, whatever the lookups and the directions requests ended in
\* (none, HTTP or network error, malformed body, an exception); it has not raised.
C5_AlwaysResponds ==
    (mode = "agent" /\ pc = "done")
    => /\ response # Raised
       /\ response # Unset
       /\ response.kind \in ResponseKinds
       /\ (route_result = Raised \/ \E s \in Slots : geo[s].st = "raise")
          => response.kind = "route_error"

\* process_message has returned the route-error response after calculate_route
\* raised in its last attempt
C5_Witness ==
    /\ mode = "agent"
    /\ pc = "done"
    /\ route_result = Raised
    /\ attempt = settings_max_retries - 1
    /\ response = _create_route_error_response(origin_name, dest_name)

\* C6 as stated: when the destination's lookup gave none (and the origin's a
\* Location), process_message returns the route-error response after
\* settings.max_retries attempts.
C6_Original ==
    (/\ mode = "agent"
     /\ pc = "done"
     /\ geo.origin.st = "ok"
     /\ geo.destination.st = "none")
    => /\ response.kind = "route_error"
       /\ attempt = settings_max_retries - 1
       /\ geo_calls = 2 * settings_max_retries

\* C6, amended: when the destination's lookup gave none and the gather of that
\* attempt returns, process_message returns the route-error response at once, in
\* that attempt: no calculate_route call, no sleep, no further attempt or lookup.
\* When the origin's lookup raised instead, the gather raises and the attempt is
\* handled as an exception: a sleep and another attempt while attempts remain,
\* else the route-error response. In neither case does the attempt return a
\* success response or call calculate_route.
C6_DestinationNone ==
    [][ (GatherEnds /\ geo.destination.st = "none")
        => /\ rt' = RtIdle
           /\ dir_calls' = dir_calls
           /\ cache' = cache
           /\ geo_calls' = geo_calls
           /\ attempt' = attempt
           /\ IF geo.origin.st = "raise" /\ attempt < settings_max_retries - 1
              THEN /\ pc' = "retry_sleep"
                   /\ response' = Unset
              ELSE /\ pc' = "done"
                   /\ response' = _create_route_error_response(origin_name, dest_name)
                   /\ ag_sleeps' = ag_sleeps
      ]_vars

\* the route-error response returned in the first attempt, after two lookups
C6_Witness ==
    /\ mode = "agent"
    /\ pc = "done"
    /\ geo.origin.st = "ok"
    /\ geo.destination.st = "none"
    /\ attempt = 0
    /\ geo_calls = 2
    /\ ag_sleeps = <<>>
    /\ response.kind = "route_error"

\* C7: once an attempt is past its gather with a lookup that gave none, the loop
\* has been abandoned: process_message has returned the route-error response,
\* calculate_route was not called in the attempt, no sleep followed the attempt
\* and no lookup was issued after its two.
C7_AbandonOnNone ==
    (/\ mode = "agent"
     /\ pc # "gather"
     /\ \E s \in Slots : geo[s].st = "none")
    => /\ pc = "done"
       /\ response.kind = "route_error"
       /\ rt = RtIdle
       /\ Len(ag_sleeps) = attempt
       /\ geo_calls = 2 * (attempt + 1)

\* C8: the attempts of _get_route_with_retry are numbered 0 .. max_retries - 1
\* and each begins only when the one before has failed and its sleep is over;
\* the sleep after failed attempt i is retry_delay * 2^i; when the loop has ended
\* after a calculate_route that gave none or an attempt that raised, it was
\* attempt max_retries - 1, no sleep followed it and the result is none (the
\* route-error response); a RouteInfo from calculate_route ends the loop in the
\* same step with the success response of that RouteInfo.
C8_AttemptLoop ==
    [][ /\ (mode' = "agent" /\ geo' # GeoNone)
           => /\ attempt' \in 0..(settings_max_retries - 1)
              /\ geo_calls' = 2 * (attempt' + 1)
              /\ Len(ag_sleeps') = IF pc' = "retry_sleep" THEN attempt' + 1 ELSE attempt'
              /\ \A i \in 1..Len(ag_sleeps') :
                    ag_sleeps'[i] = settings_retry_delay * 2^(i - 1)
              /\ IsRoute(route_result')
                 => /\ pc' = "done"
                    /\ response' = _create_success_response(route_result')
              /\ (/\ pc' = "done"
                  /\ \/ route_result' \in {NoneVal, Raised}
                     \/ \E s \in Slots : geo'[s].st = "raise")
                 => /\ attempt' = settings_max_retries - 1
                    /\ Len(ag_sleeps') = settings_max_retries - 1
                    /\ response' = _create_route_error_response(origin_name', dest_name')
        /\ (mode = "agent" /\ mode' = "agent" /\ attempt' # attempt)
           => /\ pc = "retry_sleep"
              /\ pc' = "gather"
              /\ attempt' = attempt + 1
              /\ orphans' = orphans
        /\ (mode' = "agent" /\ pc # "retry_sleep" /\ pc' = "retry_sleep")
           => /\ attempt' = attempt
              /\ \/ route_result' \in {NoneVal, Raised}
                 \/ \E s \in Slots : geo[s].st = "raise"
      ]_vars

\* all attempts ran: calculate_route gave none in the last, after the sleeps 1, 2
C8_Witness ==
    /\ mode = "agent"
    /\ pc = "done"
    /\ attempt = settings_max_retries - 1
    /\ route_result = NoneVal
    /\ ag_sleeps = <<1, 2>>
    /\ geo_calls = 2 * settings_max_retries
    /\ response.kind = "route_error"

\* C9: process_message goes on to its lookups only with a message that passed
\* detection, parsing and both validations; for any other message it returns a
\* help, parse-error or validation-error response in the same step, having issued
\* no lookup and no directions request and leaving the cache as it was. The
\* first requests of a call are lookups, for a message that passed; and a help,
\* parse-error or validation-error response is only ever returned with no request
\* issued and the cache unchanged.
C9_NoCallsBeforeChecks ==
    [][ /\ (pc = "idle" /\ mode' = "agent")
           => IF PassesChecks(message')
              THEN /\ pc' = "gather"
                   /\ geo_calls' = 2
                   /\ dir_calls' = 0
                   /\ response' = Unset
              ELSE /\ pc' = "done"
                   /\ response'.kind \in EarlyKinds
                   /\ geo_calls' = 0
                   /\ dir_calls' = 0
                   /\ cache' = cache
        /\ (mode' = "agent" /\ geo_calls = 0 /\ geo_calls' > 0)
           => PassesChecks(message')
        /\ (mode' = "agent" /\ dir_calls' > 0) => geo_calls' > 0
        /\ (mode = "agent" /\ mode' = "agent") => message' = message
        /\ (/\ mode' = "agent"
            /\ response' # response
            /\ response'.kind \in EarlyKinds)
           => /\ pc = "idle"
              /\ geo_calls' = 0
              /\ dir_calls' = 0
              /\ cache' = cache
      ]_vars

\* a validation-error response returned with no request issued
C9_Witness ==
    /\ mode = "agent"
    /\ pc = "done"
    /\ message = M_dest_invalid
    /\ response.kind = "validation_error"
    /\ geo_calls = 0
    /\ dir_calls = 0

\* C10: when process_message is called with a message that parses, an invalid
\* origin gives the validation-error response naming "origin" with the
\* validator's message for the origin, whatever the destination; "destination" is
\* named, with the validator's message for the destination, exactly when the
\* origin is valid and the destination is not. No later step of the call returns
\* a validation-error response.
C10_OriginFirst ==
    [][ /\ (pc = "idle" /\ mode' = "agent" /\ is_route_request(message'))
           => \E locations \in {parse_route_request(message')} :
                 locations # <<>>
                 => \E o \in {validate_location(locations[1])},
                       d \in {validate_location(locations[2])} :
                       /\ ~o.valid
                          => /\ pc' = "done"
                             /\ response' =
                                   _create_validation_error_response("origin", o.error)
                       /\ (o.valid /\ ~d.valid)
                          => /\ pc' = "done"
                             /\ response' =
                                   _create_validation_error_response("destination",
                                                                     d.error)
                       /\ (/\ response' # Unset
                           /\ response'.kind = "validation_error"
                           /\ response'.text.location_type = "destination")
                          => (o.valid /\ ~d.valid)
        /\ (/\ mode' = "agent"
            /\ response' # response
            /\ response'.kind = "validation_error")
           => pc = "idle"
      ]_vars

\* origin and destination both invalid, for different reasons: the response names
\* the origin and carries the origin's message
C10_Witness ==
    /\ mode = "agent"
    /\ pc = "done"
    /\ message = M_both_mixed
    /\ validate_location(parse_route_request(message)[1]).error = ErrShort
    /\ validate_location(parse_route_request(message)[2]).error = ErrChars
    /\ response = _create_validation_error_response("origin", ErrShort)

\* the RouteInfos in the cache
Stored == {cache[k].route_info : k \in DOMAIN cache}

\* the RouteInfo the call in progress has returned, if any
Returned == IF IsRoute(route_result) THEN {route_result} ELSE {}

\* r's link is the one made of the coordinates of o and d
LinkOf(r, o, d) ==
    r.map_url = [base |-> "https://www.google.com/maps/dir/?api=1",
                 origin |-> <<o.latitude, o.longitude>>,
                 destination |-> <<d.latitude, d.longitude>>]

\* the names of o and d, lower-cased
LowerNames(o, d) == <<Lower(o.name), Lower(d.name)>>

\* C11 as stated: the RouteInfo a calculate_route call returns has the call's two
\* Locations as origin and destination and a map_url made of their coordinates,
\* on a cache hit as on a fresh computation.
C11_Original ==
    (rt # RtIdle /\ IsRoute(route_result))
    => /\ route_result.origin = rt.origin
       /\ route_result.destination = rt.destination
       /\ LinkOf(route_result, rt.origin, rt.destination)

\* C11, amended: every RouteInfo returned or stored has a map_url made of the
\* coordinates of its own origin and destination, whatever the provider answered.
\* After a fresh computation these are the two Locations passed to the call; on a
\* cache hit they are the Locations of the call that stored the entry, whose
\* names equal the call's names up to letter case, while coordinates and letter
\* case may differ.
C11_MapUrlFromLocations ==
    /\ \A r \in Stored \cup Returned : LinkOf(r, r.origin, r.destination)
    /\ (rt # RtIdle /\ IsRoute(route_result))
       => IF rt.lookup = "hit"
          THEN LowerNames(route_result.origin, route_result.destination)
                  = LowerNames(rt.origin, rt.destination)
          ELSE /\ route_result.origin = rt.origin
               /\ route_result.destination = rt.destination
               /\ LinkOf(route_result, rt.origin, rt.destination)

\* a cache hit returns a RouteInfo whose link is made of other coordinates than
\* those of the call's origin
C11_Witness ==
    /\ rt # RtIdle
    /\ rt.lookup = "hit"
    /\ IsRoute(route_result)
    /\ route_result.origin.latitude # rt.origin.latitude
    /\ LinkOf(route_result, route_result.origin, route_result.destination)

\* C12: a call serves an entry only if its age is below the ttl, and then changes
\* nothing; a call that finds an entry of age ttl or more deletes it in the step
\* of the lookup, before its request; and while such a call has had no successful
\* answer, and once it has ended in none, its key is absent from the cache.
C12_ExpiredNeverServed ==
    [][ /\ EntersCalc
           => LET key == LowerNames(rt'.origin, rt'.destination) IN
              /\ rt'.lookup = "hit"
                 => /\ key \in DOMAIN cache
                    /\ cache[key].age < CacheTtl
                    /\ route_result' = cache[key].route_info
                    /\ cache' = cache
              /\ (key \in DOMAIN cache /\ cache[key].age >= CacheTtl)
                 => /\ rt'.lookup = "expired"
                    /\ key \notin DOMAIN cache'
                    /\ route_result' # cache[key].route_info
                    /\ pc' = "get"
        /\ (rt' # RtIdle /\ rt'.lookup = "expired")
           => LET key == LowerNames(rt'.origin, rt'.destination) IN
              IF IsRoute(route_result')
              THEN cache'[key] = [route_info |-> route_result', age |-> 0]
              ELSE key \notin DOMAIN cache'
      ]_vars

\* a call found an expired entry, its request failed, and the key is absent
C12_Witness ==
    /\ pc = "done"
    /\ rt # RtIdle
    /\ rt.lookup = "expired"
    /\ rt.outcomes = <<"network_error">>
    /\ route_result = NoneVal
    /\ LowerNames(rt.origin, rt.destination) \notin DOMAIN cache

\* C13: every RouteInfo that calculate_route has returned or stored has
\* distance_km >= 0 and duration_minutes >= 0.
C13_NonNegative ==
    \A r \in Stored \cup Returned : r.distance_km >= 0 /\ r.duration_minutes >= 0

\* C20: the entry a call looks up, and the entry a successful call stores, is the
\* one under the ordered pair of its lower-cased names: the call is a hit exactly
\* when that entry exists and is fresh, whatever the letter case of the names it
\* was stored with; the entry under the reversed pair is neither served to the
\* call nor changed by it; and every entry lies under the lower-cased names of
\* its RouteInfo.
C20_CaseInsensitiveOrderedKey ==
    [][ /\ EntersCalc
           => LET key == LowerNames(rt'.origin, rt'.destination)
                  rev == <<key[2], key[1]>>
              IN /\ rt'.lookup = "hit"
                    <=> (key \in DOMAIN cache /\ cache[key].age < CacheTtl)
                 /\ rt'.lookup = "hit" => route_result' = cache[key].route_info
                 /\ (rev # key /\ rev \in DOMAIN cache)
                    => /\ rev \in DOMAIN cache'
                       /\ cache'[rev] = cache[rev]
                       /\ key \notin DOMAIN cache => rt'.lookup = "miss"
        /\ (GetsAnswer /\ LastOf(rt'.outcomes) = "ok")
           => LET key == LowerNames(rt.origin, rt.destination) IN
              /\ DOMAIN cache' = DOMAIN cache \cup {key}
              /\ cache'[key].route_info = route_result'
              /\ \A k \in DOMAIN cache \ {key} : cache'[k] = cache[k]
        /\ \A k \in DOMAIN cache' :
              k = LowerNames(cache'[k].route_info.origin, cache'[k].route_info.destination)
      ]_vars

\* a call for ("LAGOS", "Abuja") is served the entry stored for ("Lagos", "Abuja")
\* while the cache also holds an entry for ("Abuja", "Lagos")
C20_Witness ==
    /\ rt # RtIdle
    /\ rt.lookup = "hit"
    /\ rt.origin.name = N_LAGOS
    /\ route_result.origin.name = N_Lagos
    /\ <<Lower(N_Abuja), Lower(N_Lagos)>> \in DOMAIN cache
    /\ cache[<<Lower(N_Abuja), Lower(N_Lagos)>>].route_info # route_result

\* C14: sanitize_location of what sanitize_location returned is that same string,
\* and what sanitize_location returns holds none of < > ' " ;
C14_SanitizeIdempotent ==
    pure.fn = "sanitize_location twice"
    => /\ pure.ret = pure.once
       /\ \A i \in 1..Len(pure.once) : pure.once[i] \notin {"<", ">", "'", "\"", ";"}

\* a character validate_location allows
Permitted(c) ==
    \/ c \in LowerSet \cup UpperSet \cup DigitSet
    \/ c \in Whitespace
    \/ c \in {"-", ",", "."}

\* C15 as stated: validate_location gives (false, error) for a string of fewer
\* than 2 or more than 100 characters or with a character that is not allowed,
\* and (true, none) for every other string that is not blank.
C15_Original ==
    pure.fn = "validate_location"
    => IF \/ Len(pure.arg) < 2
          \/ Len(pure.arg) > 100
          \/ \E i \in 1..Len(pure.arg) : ~Permitted(pure.arg[i])
       THEN ~pure.ret.valid /\ pure.ret.error # NoError
       ELSE (\E i \in 1..Len(pure.arg) : pure.arg[i] \notin Whitespace)
            => pure.ret = [valid |-> TRUE, error |-> NoError]

\* C15, amended: validate_location judges the string with the blanks at its ends
\* stripped: it gives (true, none) exactly when the stripped string has 2 to 100
\* characters, all of them allowed, and (false, error) otherwise, which includes
\* the blank strings.
C15_ValidateStripped ==
    pure.fn = "validate_location"
    => LET t == Strip(pure.arg) IN
       IF /\ Len(t) >= 2
          /\ Len(t) <= 100
          /\ \A i \in 1..Len(t) : Permitted(t[i])
       THEN pure.ret = [valid |-> TRUE, error |-> NoError]
       ELSE ~pure.ret.valid /\ pure.ret.error # NoError

\* a string of 102 characters is valid: 100 letters between two blanks
C15_Witness ==
    /\ pure.fn = "validate_location"
    /\ Len(pure.arg) = 102
    /\ Len(Strip(pure.arg)) = 100
    /\ pure.ret = [valid |-> TRUE, error |-> NoError]

\* C16: for a message "directions from A to B", in whatever letter casing and
\* with whatever blanks between its words, parse_route_request returns A and B
\* in title case.
C16_ParsesDirections ==
    (pure.fn = "parse_route_request" /\ pure.form # NoForm)
    => pure.ret = <<Title(pure.form[1]), Title(pure.form[2])>>

\* the handler has answered a request during which an exception was caught
AnsweredFault == hw.stage = "returned" /\ hw.caught # NoException

\* the request is a JSON object whose "message" is the empty string
IsEmptyMessage(request) ==
    /\ request.json
    /\ IsDict(request.value)
    /\ "message" \in DOMAIN request.value.dict
    /\ IsStr(request.value.dict["message"], <<>>)

\* C17: when an exception raised while a webhook request is processed has been
\* caught, the primary text field of the answer does not carry the text of
\* that exception.
C17_NoExceptionText ==
    AnsweredFault
    => LET content == ContentOf(hw.response.content)
       IN ~("error" \in DOMAIN content /\ content.error = hw.caught)

\* C18: no request makes handle_webhook raise; every answer is a JSON-RPC task
\* envelope of make_task_result, with state "failed" when an error occurred.
C18_AlwaysEnvelope ==
    /\ hw.stage # "raised"
    /\ hw.stage = "returned"
       => /\ hw.response.content.jsonrpc = "2.0"
          /\ hw.response.content.result.kind = "task"
          /\ hw.caught # NoException => StateOf(hw.response.content) = "failed"

\* C19: a request whose message field is the empty string is answered with
\* HTTP status 400, and process_message is not called for it.
C19_EmptyMessageRejected ==
    (hw.stage = "returned" /\ IsEmptyMessage(hw.request))
    => /\ hw.response.status_code = 400
       /\ ~hw.called

\* C23: for a duration of d minutes the summary shows H = floor(d / 60) and
\* M = floor(d mod 60): "M min" alone when d < 60, "H hour M min" when H = 1 and
\* "H hours M min" when H > 1. Here d = seconds / 60.
C23_SummaryDuration ==
    pure.fn = "_create_summary"
    => LET n == pure.seconds
           H == CHOOSE h \in -1..(MaxSummaryMinutes + 400) :
                   3600 * h <= n /\ n < 3600 * (h + 1)
           M == CHOOSE m \in 0..59 :
                   60 * m <= n - 3600 * H /\ n - 3600 * H < 60 * (m + 1)
       IN pure.ret.time_str =
             IF n < 3600 THEN <<M, "min">>
             ELSE IF H = 1 THEN <<H, "hour", M, "min">>
             ELSE <<H, "hours", M, "min">>

C23_Witness ==
    /\ pure.fn = "_create_summary"
    /\ pure.seconds = 3719
    /\ pure.ret.time_str = <<1, "hour", 1, "min">>

\* C21: a hit leaves the cache as it is, the age of the entry included; the age
\* of an entry goes back to 0 only in the step in which a successful answer
\* stores the entry anew, so reading does not postpone the expiry.
C21_HitDoesNotRefresh ==
    [][ /\ (EntersCalc /\ rt'.lookup = "hit")
           => /\ cache' = cache
              /\ cache'[LowerNames(rt'.origin, rt'.destination)].age
                    = cache[LowerNames(rt'.origin, rt'.destination)].age
        /\ \A k \in DOMAIN cache \cap DOMAIN cache' :
              cache'[k].age < cache[k].age
              => /\ pc = "get"
                 /\ IsRoute(route_result')
                 /\ cache'[k] = [route_info |-> route_result', age |-> 0]
      ]_vars

\* a call was served an entry stored a second ago, and the entry is still a
\* second old
C21_Witness ==
    /\ pc = "done"
    /\ rt # RtIdle
    /\ rt.lookup = "hit"
    /\ cache[LowerNames(rt.origin, rt.destination)].age = 1
    /\ route_result = cache[LowerNames(rt.origin, rt.destination)].route_info

\* an entry of c2 that c1 does not hold as it is, age aside
NewEntries(c1, c2) ==
    {k \in DOMAIN c2 : k \notin DOMAIN c1 \/ c2[k].route_info # c1[k].route_info}

\* C26: an entry is added or replaced only in the step in which a directions
\* request is answered successfully, and it is the RouteInfo that call returns;
\* a call that ends in none has added or replaced nothing; every entry lies
\* under the lower-cased names of its RouteInfo.
C26_StoredBySuccess ==
    /\ [](\A k \in DOMAIN cache :
            k = LowerNames(cache[k].route_info.origin, cache[k].route_info.destination))
    /\ [][ /\ \A k \in NewEntries(cache, cache') :
                /\ pc = "get"
                /\ LastOf(rt'.outcomes) = "ok"
                /\ IsRoute(route_result')
                /\ cache'[k] = [route_info |-> route_result', age |-> 0]
                /\ k = LowerNames(rt.origin, rt.destination)
           /\ (rt' # RtIdle /\ route_result' = NoneVal)
              => NewEntries(cache, cache') = {}
         ]_vars

\* a call whose third request was refused has ended in none, and the cache is
\* empty still
C26_Witness ==
    /\ pc = "done"
    /\ rt # RtIdle
    /\ rt.outcomes = <<"429", "429", "http_error">>
    /\ route_result = NoneVal
    /\ cache = EmptyCache

\* the route of the names of the call in progress is cached and not expired
RouteCached ==
    /\ <<Lower(origin_name), Lower(dest_name)>> \in DOMAIN cache
    /\ Fresh(cache[<<Lower(origin_name), Lower(dest_name)>>])

\* C27: process_message reaches the cache lookup only from a gather in which
\* both lookups gave a Location; a call served from the cache has issued the two
\* lookups of each of its attempts and no directions request; and when the
\* gather of an attempt ends with a lookup that gave none while the route is
\* cached and not expired, the call returns the route-error response.
C27_CacheAfterGeocoding ==
    [][ /\ (mode' = "agent" /\ EntersCalc)
           => /\ pc = "gather"
              /\ geo.origin.st = "ok"
              /\ geo.destination.st = "ok"
        /\ (mode' = "agent" /\ EntersCalc /\ rt'.lookup = "hit")
           => /\ geo_calls' = 2 * (attempt' + 1)
              /\ dir_calls' = 0
        /\ (/\ mode = "agent"
            /\ GatherEnds
            /\ RouteCached
            /\ \E slot \in Slots : geo[slot].st = "none")
           => /\ pc' = "done"
              /\ response' = _create_route_error_response(origin_name, dest_name)
              /\ rt' = RtIdle
      ]_vars

\* a step of the call in progress: an await of it resumes
CallStep ==
    \/ \E slot \in Slots : GeocodeReturn(slot)
    \/ GatherResume
    \/ \E outcome \in RouteOutcomes : RouteResponse(outcome)
    \/ BackoffDone
    \/ RetrySleepDone

\* the steps a process_message call has left at most: those of its attempt, and
\* StepsOfAttempt for each attempt after it
StepsOfAttempt == 2 * (DEFAULT_MAX_RETRIES + 1) + 5
StepsLeft ==
    IF pc = "done" THEN 0
    ELSE (settings_max_retries - 1 - attempt) * StepsOfAttempt
         + (CASE pc = "gather" ->
                   2 * (DEFAULT_MAX_RETRIES + 1) + 2
                   + Cardinality({slot \in Slots : geo[slot].st = "pending"})
              [] pc = "get" -> 2 * (rt.max_retries - rt.attempt) + 3
              [] pc = "backoff" -> 2 * (rt.max_retries - rt.attempt) + 2
              [] pc = "retry_sleep" -> 1)

\* C28: a process_message call has issued at most settings.max_retries * (3 + 1)
\* directions requests and at most 2 * settings.max_retries geocoding requests,
\* whatever the providers answer, and it ends: while it has not ended one of its
\* awaits can resume, and each such step lowers the number of steps it has left,
\* which is never negative.
C28_BoundedCall ==
    [][ (mode = "agent" /\ pc # "done")
        => /\ dir_calls <= settings_max_retries * (DEFAULT_MAX_RETRIES + 1)
           /\ geo_calls <= 2 * settings_max_retries
           /\ dir_calls' <= settings_max_retries * (DEFAULT_MAX_RETRIES + 1)
           /\ geo_calls' <= 2 * settings_max_retries
           /\ mode' = "agent"
           /\ ENABLED CallStep
           /\ StepsLeft > 0
           /\ StepsLeft' >= 0
           /\ orphans' >= orphans => StepsLeft' < StepsLeft
      ]_vars

\* a call has ended after every request of every attempt was answered with 429
C28_Witness ==
    /\ mode = "agent"
    /\ pc = "done"
    /\ attempt = settings_max_retries - 1
    /\ dir_calls = settings_max_retries * (DEFAULT_MAX_RETRIES + 1)
    /\ geo_calls = 2 * settings_max_retries
    /\ response.kind = "route_error"

\* C29: when a backoff wait of calculate_route is over the call issues another
\* directions request; it does not return none then; a call that has ended
\* after nothing but 429 answers has waited once less than it has requested.
C29_WaitThenRetry ==
    [][ /\ pc = "backoff"
           => /\ pc' = "get"
              /\ rt'.requests = rt.requests + 1
              /\ route_result' = Unset
        /\ (rt' # RtIdle /\ rt'.outcomes # <<>> /\ All429(rt'.outcomes)
              /\ route_result' = NoneVal)
           => Len(rt'.waits) = rt'.requests - 1
      ]_vars

\* C22: an attempt issues both lookups in the step that begins its gather, and
\* when the attempt goes on from the gather (to calculate_route, to a sleep, to
\* the next attempt or to the return) neither lookup is still pending, so that no
\* lookup is left running behind the call.
C22_LookupsCompleteFirst ==
    [][ /\ (pc # "gather" /\ pc' = "gather")
           => \A s \in Slots : geo'[s] = GeoPending
        /\ GatherEnds
           => /\ \A s \in Slots : geo[s].st # "pending"
              /\ orphans' = orphans
      ]_vars

\* tasks other than t that stand at one of the positions "ats" with t's key
Others(t, ats) ==
    {u \in Tasks \ {t} : /\ calls[u].at \in ats
                         /\ KeyOf(calls[u]) = KeyOf(calls[t])}

\* C24: under cooperative scheduling a call that is between its membership test
\* and its read, expiry check or delete is the running task, its key is in the
\* cache, and the entry it read is the entry that is there; no call ends with a
\* KeyError of line 40 or 46.
C24_LookupIsOneStep ==
    \A t \in Tasks :
       /\ calls[t].at \in {"read", "check", "del"}
          => /\ running = t
             /\ KeyOf(calls[t]) \in DOMAIN cache
             /\ calls[t].at # "read" => cache[KeyOf(calls[t])] = calls[t].entry
       /\ calls[t].at = "done" => calls[t].result # CacheKeyError

\* a call is about to delete an expired entry while another call for the same
\* key is suspended in its request or its backoff
C24_Witness ==
    \E t \in Tasks :
       /\ calls[t].at = "del"
       /\ Others(t, {"get", "backoff"}) # {}

\* a step in which task t resumes from a request that succeeded
Succeeds(t) ==
    /\ calls[t].at = "get"
    /\ calls'[t].at = "done"
    /\ IsRoute(calls'[t].result)

\* C25: a call that finds no fresh entry for its key issues a directions request of
\* its own, also while another call for the same key is awaiting the provider,
\* and a call that ends with a route has made a request unless it was served from
\* the cache; a call whose request succeeds stores its own RouteInfo with a new
\* timestamp, over whatever another call has stored for the key meanwhile.
C25_NoSingleFlight ==
    [][ \A t \in Tasks :
          /\ ((calls[t].at = "test" /\ KeyOf(calls[t]) \notin DOMAIN cache)
                \/ calls[t].at = "del")
             => /\ calls'[t].at = "get"
                /\ calls'[t].requests = 1
          /\ (calls'[t].at = "done" /\ IsRoute(calls'[t].result)
                /\ calls'[t].lookup # "hit")
             => calls'[t].requests >= 1
          /\ Succeeds(t)
             => cache'[KeyOf(calls[t])] = CacheEntry(calls'[t].result)
      ]_vars

\* two calls for one key that both found no entry (so they overlapped) have both
\* ended with a route of their own request, the routes differ, and the cache
\* holds one of them: the other was overwritten
C25_Witness ==
    \E t \in Tasks :
       /\ calls[t].at = "done"
       /\ IsRoute(calls[t].result)
       /\ calls[t].lookup = "miss"
       /\ calls[t].requests >= 1
       /\ \E u \in Others(t, {"done"}) :
             /\ IsRoute(calls[u].result)
             /\ calls[u].lookup = "miss"
             /\ calls[u].requests >= 1
             /\ calls[u].result # calls[t].result
             /\ cache[KeyOf(calls[t])].route_info = calls[u].result

====
